---- MODULE Spec2Model ----
(***************************************************************************)
(* The operation log (opLog) of the gateway: a strictly sequenced, durable *)
(* log of operations kept in a transactional key-value store.  One write   *)
(* transaction spans a whole Append; every registered callback is invoked  *)
(* for every operation before the transaction is committed.                *)
(***************************************************************************)
EXTENDS Integers, Sequences, FiniteSets, TLC

VARIABLES
    db,         \* committed content of the store: key -> value
    mu,         \* holder of the exclusive side of opLog.RWMutex, or NoOne
    callbacks,  \* op.operationAppendedCallbacks, in invocation order
    ap,         \* per Append caller: position and locals of its call
    rd,         \* the Retrieve / MaxSeq / MinSeq caller
    log,        \* the operations of the Appends that returned success, in order
    handle,     \* the opLog at the path: closed, opened again
    objectBook, \* scheduler.objectBook: kind -> its DependObjectKinds
    registered  \* how the last call of scheduler.Register ended

vars == <<db, mu, callbacks, ap, rd, log, handle, objectBook, registered>>

----------------------------------------------------------------------------
(* Bounds of the exploration *)

MaxLog == 2      \* no Append is called that would store an entry above MaxLog
MaxBatch == 2    \* operations of one batch

Writers == {"w1", "w2"}
NoOne == "nobody"

\* the opLog that NewOPLog returned first
FirstHandle == [ closed |-> FALSE, reopened |-> FALSE, kept |-> 0 ]
Nil == "nil"

----------------------------------------------------------------------------
(* Error taxonomy *)

NoneClusterError == "NoneClusterError"
InternalServerError == "InternalServerError"
OperationInvalidSeqError == "OperationInvalidSeqError"
OperationSeqConflictError == "OperationSeqConflictError"
OperationInvalidContentError == "OperationInvalidContentError"
OperationGeneralFailureError == "OperationGeneralFailureError"
OperationTargetNotFoundFailureError == "OperationTargetNotFoundFailureError"
OperationNotAcceptableFailureError == "OperationNotAcceptableFailureError"
OperationConflictFailureError == "OperationConflictFailureError"
OperationUnknownFailureError == "OperationUnknownFailureError"

NoneOperationFailure == "NoneOperationFailure"
OperationGeneralFailure == "OperationGeneralFailure"
OperationTargetNotFoundFailure == "OperationTargetNotFoundFailure"
OperationNotAcceptableFailure == "OperationNotAcceptableFailure"
OperationConflictFailure == "OperationConflictFailure"
OperationUnknownFailure == "OperationUnknownFailure"

OperationFailureType ==
    { NoneOperationFailure, OperationGeneralFailure, OperationTargetNotFoundFailure,
      OperationNotAcceptableFailure, OperationConflictFailure, OperationUnknownFailure }

\* a failure type value outside the enumeration
OtherOperationFailure == "OtherOperationFailure"

\* The switch on failureType in Append; clusterErrType starts as
\* InternalServerError
CallbackClusterError(failureType) ==
    CASE failureType = NoneOperationFailure -> NoneOperationFailure
      [] failureType = OperationGeneralFailure -> OperationGeneralFailureError
      [] failureType = OperationTargetNotFoundFailure -> OperationTargetNotFoundFailureError
      [] failureType = OperationNotAcceptableFailure -> OperationNotAcceptableFailureError
      [] failureType = OperationConflictFailure -> OperationConflictFailureError
      [] failureType = OperationUnknownFailure -> OperationUnknownFailureError
      [] OTHER -> InternalServerError

----------------------------------------------------------------------------
(* Operations and their serialized form *)

ContentFields ==
    << "ContentCreatePlugin", "ContentUpdatePlugin", "ContentDeletePlugin",
       "ContentCreatePipeline", "ContentUpdatePipeline", "ContentDeletePipeline" >>

Operation(f, payload) ==
    [ i \in 1..Len(ContentFields) |-> IF ContentFields[i] = f THEN payload ELSE Nil ]

OpA == Operation("ContentCreatePlugin", "a")
OpB == Operation("ContentDeletePipeline", "b")
OpEmpty == Operation("none", "x")

\* a member's value that encoding/json has no encoding for
Unencodable == "unencodable"

OpUnencodable == Operation("ContentUpdatePlugin", Unencodable)

Operations == {OpA, OpB, OpEmpty, OpUnencodable}

\* the switch of Append: some content member is not nil
HasContent(operation) == \E i \in 1..Len(ContentFields) : operation[i] # Nil

RECURSIVE MarshalFrom(_, _)
MarshalFrom(operation, i) ==
    IF i > Len(ContentFields) THEN <<>>
    ELSE (IF operation[i] = Nil THEN <<>> ELSE << ContentFields[i], operation[i] >>)
         \o MarshalFrom(operation, i + 1)

\* json.Marshal(operation): an object of the members that are set, by name,
\* or an error and no bytes when a member cannot be encoded
Marshal(operation) ==
    IF \E i \in 1..Len(ContentFields) : operation[i] = Unencodable
    THEN [ err |-> TRUE, opBuff |-> <<>> ]
    ELSE [ err |-> FALSE,
           opBuff |-> << "{" >> \o MarshalFrom(operation, 1) \o << "}" >> ]

\* the syntax json.Unmarshal checks before it decodes: an object, opened and
\* closed by its braces, of pairs of a name and a value
ValidObject(opBuff) ==
    /\ Len(opBuff) >= 2
    /\ Len(opBuff) % 2 = 0
    /\ opBuff[1] = "{" /\ opBuff[Len(opBuff)] = "}"
    /\ \A j \in 2..(Len(opBuff) - 1) : opBuff[j] \notin {"{", "}"}

\* json.Unmarshal(opBuff, new(Operation)): an error, with the operation left
\* as new(Operation), when opBuff is not an object; otherwise members not
\* named stay nil and the last pair of a name gives the member's value
Unmarshal(opBuff) ==
    LET body == SubSeq(opBuff, 2, Len(opBuff) - 1)
        n == Len(body) \div 2
        Named(i, j) == body[2 * j - 1] = ContentFields[i]
    IN  IF ~ValidObject(opBuff)
        THEN [ err |-> TRUE, operation |-> [ i \in 1..Len(ContentFields) |-> Nil ] ]
        ELSE [ err |-> FALSE,
               operation |->
                 [ i \in 1..Len(ContentFields) |->
                     IF \E j \in 1..n : Named(i, j)
                     THEN body[2 * (CHOOSE j \in 1..n :
                                      /\ Named(i, j)
                                      /\ \A k \in (j + 1)..n : ~Named(i, k))]
                     ELSE Nil ] ]

----------------------------------------------------------------------------
(* Keys and the decimal encoding of sequence numbers *)

maxSeqKey == << "maxSeqKey" >>

Digits == << "0", "1", "2", "3", "4", "5", "6", "7", "8", "9" >>

DigitVal(c) == CHOOSE d \in 0..9 : Digits[d + 1] = c

\* fmt.Sprintf("%d", n)
RECURSIVE FormatUint(_)
FormatUint(n) ==
    IF n < 10 THEN << Digits[n + 1] >>
    ELSE FormatUint(n \div 10) \o << Digits[(n % 10) + 1] >>

RECURSIVE ParseDigits(_, _, _)
ParseDigits(s, base, acc) ==
    IF s = <<>> THEN [err |-> FALSE, val |-> acc]
    ELSE IF DigitVal(Head(s)) >= base THEN [err |-> TRUE, val |-> 0]
    ELSE ParseDigits(Tail(s), base, acc * base + DigitVal(Head(s)))

\* strconv.ParseUint(s, 0, 64) on a string of decimal digits: a leading "0"
\* selects base 8 for the rest
ParseUint(s) ==
    IF s = <<>> THEN [err |-> TRUE, val |-> 0]
    ELSE IF Head(s) = "0" THEN ParseDigits(Tail(s), 8, 0)
    ELSE ParseDigits(s, 10, 0)

SeqKey(seq) == FormatUint(seq)

----------------------------------------------------------------------------
(* The transactional store *)

EmptyStore == [ k \in {} |-> <<>> ]

\* staged writes of the write transactions that are open
Staged == IF mu = NoOne THEN EmptyStore ELSE ap[mu].writes

\* variant: a new transaction also reads what open transactions have staged
NewTransactionDirty(store, staged) ==
    [ k \in (DOMAIN staged) \cup (DOMAIN store) |->
        IF k \in DOMAIN staged THEN staged[k] ELSE store[k] ]

\* db.NewTransaction: the snapshot a transaction reads is the committed state
NewTransaction(store, staged) == store

\* what a transaction reads: its own writes over its snapshot
TxnView(snap, writes) ==
    [ k \in (DOMAIN writes) \cup (DOMAIN snap) |->
        IF k \in DOMAIN writes THEN writes[k] ELSE snap[k] ]

\* txn.Set(key, value)
TxnSet(writes, key, value) ==
    [ k \in (DOMAIN writes) \cup {key} |-> IF k = key THEN value ELSE writes[k] ]

\* txn.Commit: all staged writes become visible together
Commit(store, writes) == TxnView(store, writes)

locklessReadMaxSeq(view) ==
    IF maxSeqKey \notin DOMAIN view THEN 0
    ELSE LET maxSeq == IF view[maxSeqKey] = <<>> THEN << "0" >> ELSE view[maxSeqKey]
             p == ParseUint(maxSeq)
         IN  IF p.err THEN 0 ELSE p.val

\* variant: the min sequence of a log is always 1
locklessReadMinSeqOne(view) == 1

locklessReadMinSeq(view) == IF locklessReadMaxSeq(view) > 0 THEN 1 ELSE 0

locklessWriteMaxSeq(writes, ms) == TxnSet(writes, maxSeqKey, FormatUint(ms))

\* variant: the increase adds two
locklessIncreaseMaxSeqByTwo(snap, writes) ==
    locklessWriteMaxSeq(writes,
        locklessReadMaxSeq([ k \in (DOMAIN writes) \cup (DOMAIN snap) |->
            IF k \in DOMAIN writes THEN writes[k] ELSE snap[k] ]) + 2)

\* variant: the increase reads the snapshot, not the transaction's own writes
locklessIncreaseMaxSeqStale(snap, writes) ==
    locklessWriteMaxSeq(writes, locklessReadMaxSeq(snap) + 1)

locklessIncreaseMaxSeq(snap, writes) ==
    locklessWriteMaxSeq(writes, locklessReadMaxSeq(TxnView(snap, writes)) + 1)

----------------------------------------------------------------------------
(* The callback registry *)

CallbackNames == {"c1", "c2"}
Priorities == {"critical", "normal"}
PriorityRank(p) == IF p = "critical" THEN 0 ELSE 1

RECURSIVE InsertByPriority(_, _)
InsertByPriority(cbs, cb) ==
    IF cbs = <<>> THEN << cb >>
    ELSE IF PriorityRank(cb.priority) < PriorityRank(Head(cbs).priority)
         THEN << cb >> \o cbs
         ELSE << Head(cbs) >> \o InsertByPriority(Tail(cbs), cb)

\* common.DeleteCallback(set, name)
DeleteCallback(cbs, name) == SelectSeq(cbs, LAMBDA c : c.name # name)

\* common.AddCallback(set, name, callback, priority): replaces the entry of
\* that name, keeps the list ordered by priority, stable among equals
AddCallback(cbs, name, priority) ==
    InsertByPriority(DeleteCallback(cbs, name), [name |-> name, priority |-> priority])

\* what a callback may return: (error or nil, failure type)
CallbackOutcomes ==
    { [err |-> FALSE, failureType |-> NoneOperationFailure] } \cup
    { [err |-> TRUE, failureType |-> f] : f \in OperationFailureType \cup {OtherOperationFailure} }

----------------------------------------------------------------------------
(* Append *)

Batches(ops) == UNION { [1..n -> ops] : n \in 0..MaxBatch }

IdleAppend ==
    [ pc |-> "idle", startSeq |-> 0, operations |-> <<>>, idx |-> 0, cbIdx |-> 0,
      cbs |-> <<>>, snap |-> EmptyStore, writes |-> EmptyStore, ms |-> 0,
      err |-> FALSE, kind |-> NoneClusterError, at |-> "", invoked |-> <<>>,
      pre |-> EmptyStore, seen |-> 0, retry |-> "" ]

\* what a transaction of the handle can read of the store: after Close a
\* Get still answers or fails, and a key whose Get fails reads as not stored
HandleViews(h, store) ==
    IF h.closed
    THEN { store, EmptyStore,
           [ k \in (DOMAIN store) \cap {maxSeqKey} |-> store[k] ] }
    ELSE { store }

\* the errors txn.Commit can return: after Close nothing reaches the store
CommitOutcomes(h) == IF h.closed THEN {TRUE} ELSE BOOLEAN

\* a return statement of Append under the lock: the error, the cluster error
\* type, and which return it is
Returns(a, err, kind, at) ==
    [a EXCEPT !.pc = "unlock", !.err = err, !.kind = kind, !.at = at]

\* variant: no check for a start sequence that was already appended
CheckStartSeqNoConflict(startSeq, ms) ==
    IF startSeq = 0 THEN InternalServerError
    ELSE IF startSeq > ms + 1 THEN OperationInvalidSeqError
    ELSE NoneClusterError

\* variant: the check for 0 comes after the comparisons with the max sequence
CheckStartSeqZeroLast(startSeq, ms) ==
    IF startSeq > ms + 1 THEN OperationInvalidSeqError
    ELSE IF startSeq < ms + 1 THEN OperationSeqConflictError
    ELSE IF startSeq = 0 THEN InternalServerError
    ELSE NoneClusterError

\* the checks of the start sequence, Append lines 214-220
CheckStartSeq(startSeq, ms) ==
    IF startSeq = 0 THEN InternalServerError
    ELSE IF startSeq > ms + 1 THEN OperationInvalidSeqError
    ELSE IF startSeq < ms + 1 THEN OperationSeqConflictError
    ELSE NoneClusterError

\* variant: no test of the batch's length
CallEntryNoEmptyTest(operations) == "lock"

\* the test of the batch's length: an empty batch returns at once
CallEntry(operations) == IF Len(operations) = 0 THEN "returned" ELSE "lock"

\* variant: the mutex excludes nobody
CanLockAlways(holder) == TRUE

\* op.Lock() returns when nobody holds the mutex
CanLock(holder) == holder = NoOne

\* variant: leaving Append commits what the transaction has staged
DiscardCommits(store, writes) ==
    [ k \in (DOMAIN writes) \cup (DOMAIN store) |->
        IF k \in DOMAIN writes THEN writes[k] ELSE store[k] ]

\* the deferred txn.Discard(): what the transaction staged and did not commit
\* is dropped
Discard(store, writes) == store

\* the call and the test of the batch's length, which is made without the lock
AppendCall(w, startSeq, operations) ==
    /\ ap[w].pc \in {"idle", "returned"}
    /\ Len(operations) <= MaxBatch
    /\ startSeq + Len(operations) <= MaxLog + 1
    /\ ap' = [ap EXCEPT ![w] =
                [IdleAppend EXCEPT !.startSeq = startSeq, !.operations = operations,
                                   !.pre = db, !.seen = locklessReadMaxSeq(db),
                                   !.pc = CallEntry(operations)]]
    /\ UNCHANGED <<db, mu, callbacks, rd, log, handle, objectBook, registered>>

\* the errors of Append that tell the caller its arguments were refused
RefusalKinds == {OperationInvalidSeqError, OperationSeqConflictError, OperationInvalidContentError}

\* a caller whose Append was refused calls MaxSeq(): the read lock, taken
\* when no Append holds the mutex and released on return, and the max
\* sequence read in a transaction of its own
RetryMaxSeq(w) ==
    /\ ap[w].pc = "returned"
    /\ ap[w].err /\ ap[w].kind \in RefusalKinds
    /\ mu = NoOne
    /\ \E view \in HandleViews(handle, db) :
          ap' = [ap EXCEPT ![w] =
                   [IdleAppend EXCEPT
                      !.seen = locklessReadMaxSeq(
                                  TxnView(NewTransaction(view, Staged), EmptyStore)),
                      !.retry = ap[w].kind, !.pc = "retry"]]
    /\ UNCHANGED <<db, mu, callbacks, rd, log, handle, objectBook, registered>>

\* the caller, with the max sequence MaxSeq() returned, calls Append again
\* with a batch of operations that all have content, at that value + 1
AppendRetry(w, operations) ==
    /\ ap[w].pc = "retry"
    /\ Len(operations) > 0
    /\ Len(operations) <= MaxBatch
    /\ \A i \in 1..Len(operations) : HasContent(operations[i])
    /\ ap[w].seen + Len(operations) <= MaxLog
    /\ ap' = [ap EXCEPT ![w] =
                [IdleAppend EXCEPT !.startSeq = ap[w].seen + 1,
                                   !.operations = operations,
                                   !.pre = db, !.seen = ap[w].seen,
                                   !.retry = ap[w].retry,
                                   !.pc = CallEntry(operations)]]
    /\ UNCHANGED <<db, mu, callbacks, rd, log, handle, objectBook, registered>>

\* op.Lock(), the write transaction, the read of the max sequence and the
\* checks of startSeq
AppendLock(w) ==
    /\ ap[w].pc = "lock"
    /\ CanLock(mu)
    /\ mu' = w
    /\ \E view \in HandleViews(handle, db) :
         LET snap == NewTransaction(view, Staged)
             ms == locklessReadMaxSeq(TxnView(snap, EmptyStore))
             kind == CheckStartSeq(ap[w].startSeq, ms)
             a == [ap[w] EXCEPT !.snap = snap, !.ms = ms, !.pre = db]
         IN  ap' = [ap EXCEPT ![w] =
                      IF kind # NoneClusterError THEN Returns(a, TRUE, kind, "startSeq")
                      ELSE IF Len(a.operations) = 0 THEN [a EXCEPT !.pc = "commit"]
                      ELSE [a EXCEPT !.pc = "stage"]]
    /\ UNCHANGED <<db, callbacks, rd, log, handle, objectBook, registered>>

\* after the callbacks of operation idx: the next operation, or the commit
NextOperation(a) ==
    IF a.idx + 1 < Len(a.operations)
    THEN [a EXCEPT !.idx = a.idx + 1, !.cbIdx = 0, !.pc = "stage"]
    ELSE [a EXCEPT !.cbIdx = 0, !.pc = "commit"]

StoreFaults == {"none", "set", "increase"}

\* variant: an operation is staged without the test of its content
StageOperationAnyContent(a, fault, cbs) ==
    LET m == Marshal(a.operations[a.idx + 1])
        w1 == TxnSet(a.writes, SeqKey(a.startSeq + a.idx), m.opBuff)
        w2 == locklessWriteMaxSeq(w1, a.ms + a.idx + 1)
    IN  IF m.err THEN [a EXCEPT !.err = TRUE, !.kind = OperationInvalidContentError,
                                !.at = "marshal", !.pc = "unlock"]
        ELSE IF fault = "set" THEN [a EXCEPT !.err = TRUE, !.kind = InternalServerError,
                                        !.at = "set", !.pc = "unlock"]
        ELSE IF fault = "increase"
             THEN [a EXCEPT !.writes = w1, !.err = TRUE, !.kind = InternalServerError,
                            !.at = "increase", !.pc = "unlock"]
        ELSE IF cbs = <<>>
             THEN IF a.idx + 1 < Len(a.operations)
                  THEN [a EXCEPT !.writes = w2, !.cbs = cbs, !.idx = a.idx + 1,
                                 !.cbIdx = 0, !.pc = "stage"]
                  ELSE [a EXCEPT !.writes = w2, !.cbs = cbs, !.cbIdx = 0, !.pc = "commit"]
             ELSE [a EXCEPT !.writes = w2, !.cbs = cbs, !.cbIdx = 1, !.pc = "callback"]

\* variant: every entry of the batch is written under the key of startSeq
StageOperationSameKey(a, fault, cbs) ==
    LET operation == a.operations[a.idx + 1]
        m == Marshal(operation)
        w1 == TxnSet(a.writes, SeqKey(a.startSeq), m.opBuff)
        w2 == locklessIncreaseMaxSeq(a.snap, w1)
    IN  IF ~HasContent(operation)
        THEN Returns(a, TRUE, OperationInvalidContentError, "content")
        ELSE IF m.err THEN Returns(a, TRUE, OperationInvalidContentError, "marshal")
        ELSE IF fault = "set" THEN Returns(a, TRUE, InternalServerError, "set")
        ELSE IF fault = "increase"
             THEN Returns([a EXCEPT !.writes = w1], TRUE, InternalServerError, "increase")
        ELSE LET b == [a EXCEPT !.writes = w2, !.cbs = cbs, !.cbIdx = 1]
             IN  IF cbs = <<>> THEN NextOperation(b) ELSE [b EXCEPT !.pc = "callback"]

\* one iteration of the loop over the batch up to the callbacks: the content
\* check, the operation marshalled, the entry and the increased max sequence
\* staged in the transaction.
\* fault is the error the store reports for one of the two writes.
StageOperation(a, fault, cbs) ==
    LET seq == a.startSeq + a.idx
        operation == a.operations[a.idx + 1]
        m == Marshal(operation)
        w1 == TxnSet(a.writes, SeqKey(seq), m.opBuff)
        w2 == locklessIncreaseMaxSeq(a.snap, w1)
    IN  IF ~HasContent(operation)
        THEN Returns(a, TRUE, OperationInvalidContentError, "content")
        ELSE IF m.err THEN Returns(a, TRUE, OperationInvalidContentError, "marshal")
        ELSE IF fault = "set" THEN Returns(a, TRUE, InternalServerError, "set")
        ELSE IF fault = "increase"
             THEN Returns([a EXCEPT !.writes = w1], TRUE, InternalServerError, "increase")
        ELSE LET b == [a EXCEPT !.writes = w2, !.cbs = cbs, !.cbIdx = 1]
             IN  IF cbs = <<>> THEN NextOperation(b) ELSE [b EXCEPT !.pc = "callback"]

AppendStage(w, fault) ==
    /\ ap[w].pc = "stage"
    /\ ap' = [ap EXCEPT ![w] = StageOperation(ap[w], fault, callbacks)]
    /\ UNCHANGED <<db, mu, callbacks, rd, log, handle, objectBook, registered>>

\* variant: only the first callback is invoked for an operation
InvokeCallbackFirstOnly(a, out) ==
    LET b == [a EXCEPT !.invoked =
                Append(a.invoked, [ name |-> a.cbs[a.cbIdx].name, seq |-> a.startSeq + a.idx,
                                    operation |-> a.operations[a.idx + 1], out |-> out ])]
    IN  IF out.err
        THEN [b EXCEPT !.err = TRUE, !.kind = CallbackClusterError(out.failureType),
                       !.at = "callback", !.pc = "unlock"]
        ELSE IF a.idx + 1 < Len(a.operations)
             THEN [b EXCEPT !.idx = a.idx + 1, !.cbIdx = 0, !.pc = "stage"]
             ELSE [b EXCEPT !.cbIdx = 0, !.pc = "commit"]

\* variant: a callback's error ends the callbacks of this operation only
InvokeCallbackBreak(a, out) ==
    NextOperation([a EXCEPT !.invoked =
        Append(a.invoked, [ name |-> a.cbs[a.cbIdx].name, seq |-> a.startSeq + a.idx,
                            operation |-> a.operations[a.idx + 1], out |-> out ])])

\* the call of one callback for the operation at idx and the handling of what
\* it returns
InvokeCallback(a, out) ==
    LET seq == a.startSeq + a.idx
        b == [a EXCEPT !.invoked =
                Append(a.invoked, [ name |-> a.cbs[a.cbIdx].name, seq |-> seq,
                                    operation |-> a.operations[a.idx + 1], out |-> out ])]
    IN  IF out.err THEN Returns(b, TRUE, CallbackClusterError(out.failureType), "callback")
        ELSE IF a.cbIdx < Len(a.cbs) THEN [b EXCEPT !.cbIdx = a.cbIdx + 1]
        ELSE NextOperation(b)

AppendCallback(w, out) ==
    /\ ap[w].pc = "callback"
    /\ ap' = [ap EXCEPT ![w] = InvokeCallback(ap[w], out)]
    /\ UNCHANGED <<db, mu, callbacks, rd, log, handle, objectBook, registered>>

\* the result of Append after txn.Commit
CommitResult(a, failed) ==
    IF failed THEN Returns(a, TRUE, NoneClusterError, "commit")
    ELSE Returns(a, FALSE, NoneClusterError, "done")

AppendCommit(w, failed) ==
    /\ ap[w].pc = "commit"
    /\ failed \in CommitOutcomes(handle)
    /\ ap' = [ap EXCEPT ![w] = CommitResult(ap[w], failed)]
    /\ IF failed
       THEN UNCHANGED <<db, log>>
       ELSE /\ db' = Commit(db, ap[w].writes)
            /\ log' = log \o ap[w].operations
    /\ UNCHANGED <<mu, callbacks, rd, handle, objectBook, registered>>

\* what the caller has of an Append that returned: its arguments and result
Returned(a) ==
    [IdleAppend EXCEPT !.pc = "returned", !.startSeq = a.startSeq,
                       !.operations = a.operations, !.err = a.err, !.kind = a.kind,
                       !.at = a.at, !.pre = a.pre, !.seen = a.seen, !.retry = a.retry]

\* the deferred txn.Discard() and op.Unlock(); after is what the caller
\* has once Append returned
Unlock(w, after) ==
    /\ ap[w].pc = "unlock"
    /\ mu = w
    /\ mu' = NoOne
    /\ db' = Discard(db, ap[w].writes)
    /\ ap' = [ap EXCEPT ![w] = after]
    /\ UNCHANGED <<callbacks, rd, log, handle, objectBook, registered>>

\* Append returns to a caller that drops the result
AppendUnlock(w) == Unlock(w, IdleAppend)

\* Append returns to a caller that keeps the result until its next call
AppendReturn(w) == Unlock(w, Returned(ap[w]))

----------------------------------------------------------------------------
(* Callback registration *)

AddOPLogAppendedCallback(name, priority) ==
    /\ CanLock(mu)
    /\ callbacks' = AddCallback(callbacks, name, priority)
    /\ UNCHANGED <<db, mu, ap, rd, log, handle, objectBook, registered>>

DeleteOPLogAppendedCallback(name) ==
    /\ CanLock(mu)
    /\ callbacks' = DeleteCallback(callbacks, name)
    /\ UNCHANGED <<db, mu, ap, rd, log, handle, objectBook, registered>>

----------------------------------------------------------------------------
(* Retrieve, MaxSeq, MinSeq *)

IdleReader ==
    [ pc |-> "idle", call |-> "none", startSeq |-> 0, countLimit |-> 0,
      snap |-> EmptyStore, ms |-> 0, idx |-> 0, ret |-> <<>>,
      err |-> FALSE, kind |-> NoneClusterError, val |-> 0,
      pre |-> EmptyStore, staged |-> 0 ]

ReaderDone(r, ret, err, kind) ==
    [r EXCEPT !.pc = "done", !.ret = ret, !.err = err, !.kind = kind]

\* Retrieve up to its loop: the read transaction, which is opened without
\* the lock, the read of the max sequence and the checks of startSeq
RetrieveBegin(startSeq, countLimit, store, staged) ==
    LET snap == NewTransaction(store, staged)
        ms == locklessReadMaxSeq(TxnView(snap, EmptyStore))
        r == [IdleReader EXCEPT !.call = "Retrieve", !.startSeq = startSeq,
                                !.countLimit = countLimit, !.snap = snap, !.ms = ms,
                                !.pre = store,
                                !.staged = Cardinality(DOMAIN staged \ {maxSeqKey})]
    IN  IF startSeq = 0 THEN ReaderDone(r, <<>>, TRUE, InternalServerError)
        ELSE IF startSeq > ms THEN ReaderDone(r, <<>>, FALSE, NoneClusterError)
        ELSE [r EXCEPT !.pc = "loop"]

\* variant: the loop stops one sequence number short of the max sequence
RetrieveIterateShort(r) ==
    LET view == TxnView(r.snap, EmptyStore)
        seq == r.startSeq + r.idx
    IN  IF r.idx < r.countLimit /\ seq < locklessReadMaxSeq(view)
        THEN IF Unmarshal(view[SeqKey(seq)]).err
             THEN ReaderDone(r, <<>>, TRUE, InternalServerError)
             ELSE [r EXCEPT !.ret = Append(r.ret, Unmarshal(view[SeqKey(seq)]).operation),
                            !.idx = r.idx + 1]
        ELSE ReaderDone(r, r.ret, FALSE, NoneClusterError)

\* the test of the loop of Retrieve and one iteration
RetrieveIterate(r) ==
    LET view == TxnView(r.snap, EmptyStore)
        seq == r.startSeq + r.idx
    IN  IF r.idx < r.countLimit /\ seq <= locklessReadMaxSeq(view)
        THEN IF SeqKey(seq) \notin DOMAIN view
             THEN ReaderDone(r, <<>>, TRUE, InternalServerError)
             ELSE IF Len(view[SeqKey(seq)]) = 0
             THEN ReaderDone(r, <<>>, TRUE, InternalServerError)
             ELSE IF Unmarshal(view[SeqKey(seq)]).err
             THEN ReaderDone(r, <<>>, TRUE, InternalServerError)
             ELSE [r EXCEPT !.ret = Append(r.ret, Unmarshal(view[SeqKey(seq)]).operation),
                            !.idx = r.idx + 1]
        ELSE ReaderDone(r, r.ret, FALSE, NoneClusterError)

RetrieveCall(startSeq, countLimit) ==
    /\ rd.pc = "idle"
    /\ \E view \in HandleViews(handle, db) :
          rd' = RetrieveBegin(startSeq, countLimit, view, Staged)
    /\ UNCHANGED <<db, mu, callbacks, ap, log, handle, objectBook, registered>>

RetrieveStep ==
    /\ rd.pc = "loop"
    /\ \E view \in HandleViews(handle, rd.snap) :
          rd' = RetrieveIterate([rd EXCEPT !.snap = view])
    /\ UNCHANGED <<db, mu, callbacks, ap, log, handle, objectBook, registered>>

\* MaxSeq: under the read lock, which no writer holds
MaxSeq ==
    /\ rd.pc = "idle"
    /\ mu = NoOne
    /\ \E view \in HandleViews(handle, db) :
         LET snap == NewTransaction(view, Staged)
         IN  rd' = [IdleReader EXCEPT !.pc = "done", !.call = "MaxSeq", !.pre = db,
                                      !.val = locklessReadMaxSeq(TxnView(snap, EmptyStore))]
    /\ UNCHANGED <<db, mu, callbacks, ap, log, handle, objectBook, registered>>

MinSeq ==
    /\ rd.pc = "idle"
    /\ mu = NoOne
    /\ \E view \in HandleViews(handle, db) :
         LET snap == NewTransaction(view, Staged)
         IN  rd' = [IdleReader EXCEPT !.pc = "done", !.call = "MinSeq", !.pre = db,
                                      !.val = locklessReadMinSeq(TxnView(snap, EmptyStore))]
    /\ UNCHANGED <<db, mu, callbacks, ap, log, handle, objectBook, registered>>

ReaderReturn ==
    /\ rd.pc = "done"
    /\ rd' = IdleReader
    /\ UNCHANGED <<db, mu, callbacks, ap, log, handle, objectBook, registered>>

----------------------------------------------------------------------------
(* The object book of the scheduler before any Register *)

EmptyBook == [ k \in {} |-> <<>> ]
NotCalled == [ kind |-> "", depends |-> <<>>, typed |-> FALSE, result |-> "none" ]

----------------------------------------------------------------------------
(* The log after NewOPLog on an empty directory *)

\* new: Readdirnames(1) gives io.EOF, the directory has no file; a store that
\* was opened at the path has left its files there
DirectoryIsNew(openedBefore) == ~openedBefore

\* variant: every open writes the initial max sequence
OpenStoreAlwaysInit(store, new, commitFailed) ==
    IF commitFailed THEN store
    ELSE Commit(store, locklessWriteMaxSeq(store, 0))

\* badger.Open on the store that is at the path; when new, the initial
\* transaction writes max sequence 0, and a failed commit is only logged
OpenStore(store, new, commitFailed) ==
    IF new /\ ~commitFailed
    THEN Commit(store, locklessWriteMaxSeq(store, 0))
    ELSE store

\* NewOPLog on an empty directory
NewOPLog(commitFailed) ==
    OpenStore(EmptyStore, DirectoryIsNew(FALSE), commitFailed)

\* Close: op.db.Close(), without the lock and whatever calls are in progress
Close ==
    /\ handle' = [handle EXCEPT !.closed = TRUE]
    /\ UNCHANGED <<db, mu, callbacks, ap, rd, log, objectBook, registered>>

\* a call of Append that is in progress on an opLog that was closed and
\* replaced: it goes on with the mutex and the callbacks of that opLog, and
\* writes nothing to the store
OrphanedAppend(a) ==
    IF a.pc \in {"idle", "returned", "retry"} THEN IdleAppend
    ELSE [IdleAppend EXCEPT !.pc = "orphaned"]

\* the same for a call of Retrieve, MaxSeq or MinSeq
OrphanedReader(r) ==
    IF r.pc \in {"idle", "done"} THEN IdleReader
    ELSE [IdleReader EXCEPT !.pc = "orphaned"]

\* NewOPLog again at the same path. While the opLog of the path is not
\* closed, badger.Open returns an error and NewOPLog returns it. After Close
\* it returns a new opLog, with a new mutex and a new callback set, over the
\* store that is there.
NewOPLogAgain(commitFailed) ==
    IF handle.closed
    THEN /\ db' = OpenStore(db, DirectoryIsNew(TRUE), commitFailed)
         /\ mu' = NoOne
         /\ callbacks' = <<>>
         /\ ap' = [w \in Writers |-> OrphanedAppend(ap[w])]
         /\ rd' = OrphanedReader(rd)
         /\ handle' = [closed |-> FALSE, reopened |-> TRUE, kept |-> Len(log)]
         /\ UNCHANGED <<log, objectBook, registered>>
    ELSE UNCHANGED vars

\* the call on the replaced opLog ends
AppendOrphanEnds(w) ==
    /\ ap[w].pc = "orphaned"
    /\ ap' = [ap EXCEPT ![w] = IdleAppend]
    /\ UNCHANGED <<db, mu, callbacks, rd, log, handle, objectBook, registered>>

ReaderOrphanEnds ==
    /\ rd.pc = "orphaned"
    /\ rd' = IdleReader
    /\ UNCHANGED <<db, mu, callbacks, ap, log, handle, objectBook, registered>>

Init ==
    /\ \E commitFailed \in BOOLEAN : db = NewOPLog(commitFailed)
    /\ mu = NoOne
    /\ callbacks = <<>>
    /\ ap = [w \in Writers |-> IdleAppend]
    /\ rd = IdleReader
    /\ log = <<>>
    /\ handle = FirstHandle
    /\ objectBook = EmptyBook
    /\ registered = NotCalled

StartSeqs == 0..(MaxLog + 1)
CountLimits == 0..MaxLog

\* a call of Append up to its result
AppendBody(w, ops, faults, outcomes) ==
    \/ \E startSeq \in StartSeqs, operations \in Batches(ops) :
          AppendCall(w, startSeq, operations)
    \/ AppendLock(w)
    \/ \E fault \in faults : AppendStage(w, fault)
    \/ \E out \in outcomes : AppendCallback(w, out)
    \/ \E failed \in BOOLEAN : AppendCommit(w, failed)

AppendSteps(w, ops, faults, outcomes) ==
    \/ AppendBody(w, ops, faults, outcomes)
    \/ AppendUnlock(w)

RegistrySteps ==
    \/ \E name \in CallbackNames, priority \in Priorities :
          AddOPLogAppendedCallback(name, priority)
    \/ \E name \in CallbackNames : DeleteOPLogAppendedCallback(name)

ReaderSteps ==
    \/ \E startSeq \in StartSeqs, countLimit \in CountLimits :
          RetrieveCall(startSeq, countLimit)
    \/ RetrieveStep
    \/ MaxSeq
    \/ MinSeq
    \/ ReaderReturn

\* one caller of Append and the registration of callbacks
Next ==
    \/ AppendSteps("w1", Operations, StoreFaults, CallbackOutcomes)
    \/ RegistrySteps

Spec == Init /\ [][Next]_vars

\* one caller of Append and a concurrent reader, with one callback registered
\* that accepts or refuses an operation
InitRead ==
    /\ \E commitFailed \in BOOLEAN : db = NewOPLog(commitFailed)
    /\ mu = NoOne
    /\ callbacks = AddCallback(<<>>, "c1", "normal")
    /\ ap = [w \in Writers |-> IdleAppend]
    /\ rd = IdleReader
    /\ log = <<>>
    /\ handle = FirstHandle
    /\ objectBook = EmptyBook
    /\ registered = NotCalled

AcceptOutcomes == { out \in CallbackOutcomes : ~out.err }

ReadOutcomes ==
    { out \in CallbackOutcomes :
        out.failureType \in {NoneOperationFailure, OperationGeneralFailure} }

NextRead ==
    \/ AppendSteps("w1", {OpA, OpB}, {"none"}, ReadOutcomes)
    \/ ReaderSteps

SpecRead == InitRead /\ [][NextRead]_vars

----------------------------------------------------------------------------
(* Properties of Append *)

\* MaxSeq() of a committed store
MaxSeqIn(store) == locklessReadMaxSeq(store)

\* Append has determined its result
Finished(a) == a.pc \in {"unlock", "returned"}

\* the bytes of an entry decode, without an error, to this operation
Decodes(opBuff, operation) ==
    Unmarshal(opBuff) = [ err |-> FALSE, operation |-> operation ]

\* the call was refused by a check of startSeq before anything was staged or
\* any callback invoked
RefusedAtStart(a, kind) ==
    /\ a.err /\ a.kind = kind /\ a.at = "startSeq"
    /\ a.invoked = <<>>
    /\ a.writes = EmptyStore
    /\ db = a.pre

\* C1: a successful Append of a non-empty batch at startSeq = MaxSeq()+1 leaves
\* MaxSeq() at the old MaxSeq plus the length of the batch, which is
\* startSeq + len(batch) - 1.
C1_AppendAdvancesMaxSeq ==
    \A w \in Writers :
        LET a == ap[w] IN
        (a.pc = "unlock" /\ ~a.err /\ Len(a.operations) > 0
            /\ a.startSeq = MaxSeqIn(a.pre) + 1)
        => /\ MaxSeqIn(db) = MaxSeqIn(a.pre) + Len(a.operations)
           /\ MaxSeqIn(db) = a.startSeq + Len(a.operations) - 1

C1_Witness ==
    \E w \in Writers :
        /\ ap[w].pc = "unlock" /\ ~ap[w].err
        /\ Len(ap[w].operations) = 2
        /\ MaxSeqIn(db) = MaxSeqIn(ap[w].pre) + 2

\* C2 as stated: Append(s, batch) with s # MaxSeq()+1 fails for every s and
\* every batch, with InvalidSeq when s > MaxSeq()+1 and SeqConflict when
\* s < MaxSeq()+1, and changes nothing.
C2_AsStated ==
    \A w \in Writers :
        LET a == ap[w] IN
        (Finished(a) /\ a.startSeq # MaxSeqIn(a.pre) + 1)
        => /\ a.err
           /\ a.startSeq > MaxSeqIn(a.pre) + 1 => a.kind = OperationInvalidSeqError
           /\ a.startSeq < MaxSeqIn(a.pre) + 1 => a.kind = OperationSeqConflictError
           /\ db = a.pre

\* C2 amended: Append(s, batch) of a non-empty batch with s >= 1 and
\* s # MaxSeq()+1 fails, with InvalidSeq when s > MaxSeq()+1 and SeqConflict
\* when s < MaxSeq()+1, and changes neither MaxSeq nor any stored entry.
C2_RefusesWrongStartSeq ==
    \A w \in Writers :
        LET a == ap[w] IN
        (Finished(a) /\ Len(a.operations) > 0 /\ a.startSeq >= 1
            /\ a.startSeq # MaxSeqIn(a.pre) + 1)
        => /\ a.err
           /\ a.startSeq > MaxSeqIn(a.pre) + 1 => a.kind = OperationInvalidSeqError
           /\ a.startSeq < MaxSeqIn(a.pre) + 1 => a.kind = OperationSeqConflictError
           /\ db = a.pre
           /\ MaxSeqIn(db) = MaxSeqIn(a.pre)

C2_Witness ==
    \E w \in Writers :
        /\ ap[w].pc = "unlock" /\ ap[w].err
        /\ ap[w].startSeq = 1 /\ MaxSeqIn(ap[w].pre) = 2
        /\ ap[w].kind = OperationSeqConflictError

\* C3: for a non-empty batch the start sequence is checked before anything is
\* staged and before any callback: 0 is refused with Internal whatever MaxSeq
\* is, otherwise a start above MaxSeq+1 with InvalidSeq, otherwise a start
\* below MaxSeq+1 with SeqConflict; nothing is staged unless the checks passed.
C3_StartSeqCheckOrder ==
    \A w \in Writers :
        LET a == ap[w]
            ms == MaxSeqIn(a.pre)
        IN  /\ (a.pc = "unlock" /\ a.startSeq = 0)
                 => RefusedAtStart(a, InternalServerError)
            /\ (a.pc = "unlock" /\ a.startSeq # 0 /\ a.startSeq > ms + 1)
                 => RefusedAtStart(a, OperationInvalidSeqError)
            /\ (a.pc = "unlock" /\ a.startSeq # 0 /\ a.startSeq < ms + 1)
                 => RefusedAtStart(a, OperationSeqConflictError)
            /\ (a.pc \in {"stage", "callback", "commit"} \/ a.writes # EmptyStore
                    \/ a.invoked # <<>>)
                 => (a.startSeq # 0 /\ a.startSeq = ms + 1)

C3_Witness ==
    \E w \in Writers :
        /\ ap[w].pc = "unlock" /\ ap[w].startSeq = 0
        /\ MaxSeqIn(ap[w].pre) >= 1
        /\ ap[w].kind = InternalServerError
        /\ ap[w].invoked = <<>>

\* C4: Append of an empty batch returns success at once: no error, the store,
\* the lock and the registry untouched and no callback invoked.
C4_EmptyBatchIsNoOp ==
    [][ \A w \in Writers :
          (/\ ap[w].pc \in {"idle", "returned"}
           /\ ap'[w] # ap[w]
           /\ Len(ap'[w].operations) = 0)
          => /\ ap'[w].pc = "returned"
             /\ ~ap'[w].err /\ ap'[w].kind = NoneClusterError
             /\ ap'[w].invoked = <<>>
             /\ db' = db /\ MaxSeqIn(db') = MaxSeqIn(db)
             /\ mu' = mu /\ callbacks' = callbacks /\ log' = log ]_vars

C4_Witness ==
    \E w \in Writers :
        /\ ap[w].pc = "returned" /\ ap[w].operations = <<>>
        /\ ap[w].startSeq = 1 /\ ~ap[w].err
        /\ MaxSeqIn(db) = 0

\* the invocations made when count callbacks have been called in this Append
InvocationsInOrder(a, count) ==
    /\ Len(a.invoked) = count
    /\ \A j \in 1..count :
          LET n == Len(a.cbs)
              i == (j - 1) \div n
          IN  /\ a.invoked[j].name = a.cbs[((j - 1) % n) + 1].name
              /\ a.invoked[j].seq = a.startSeq + i
              /\ a.invoked[j].operation = a.operations[i + 1]

\* C5: when a callback reports failure for the operation at index k, Append
\* returns an error, the store and MaxSeq are as before the call and no
\* operation of the batch has an entry, while all callbacks of the operations
\* before k and the callbacks before the failing one at k have been invoked.
C5_CallbackFailureAborts ==
    \A w \in Writers :
        LET a == ap[w] IN
        (\E j \in 1..Len(a.invoked) : a.invoked[j].out.err)
        => /\ a.pc = "unlock" /\ a.err /\ a.at = "callback"
           /\ db = a.pre
           /\ MaxSeqIn(db) = MaxSeqIn(a.pre)
           /\ \A i \in 0..(Len(a.operations) - 1) :
                 SeqKey(a.startSeq + i) \notin DOMAIN db
           /\ \A j \in 1..(Len(a.invoked) - 1) : ~a.invoked[j].out.err
           /\ InvocationsInOrder(a, a.idx * Len(a.cbs) + a.cbIdx)

C5_Witness ==
    \E w \in Writers :
        /\ ap[w].pc = "unlock" /\ ap[w].at = "callback"
        /\ ap[w].idx = 1 /\ ap[w].cbIdx = 2
        /\ Len(ap[w].invoked) = 4
        /\ db = ap[w].pre

\* C6 as stated: a callback that returns an error with failure type None makes
\* Append return the Internal cluster error.
C6_NoneFailureIsInternal ==
    \A w \in Writers :
        LET a == ap[w] IN
        (/\ a.pc = "unlock" /\ a.at = "callback"
         /\ a.invoked[Len(a.invoked)].out.failureType = NoneOperationFailure)
        => (a.err /\ a.kind = InternalServerError)

\* C7 as stated: when the commit of the transaction fails, Append reports the
\* Internal cluster error.
C7_CommitFailureIsInternal ==
    \A w \in Writers :
        LET a == ap[w] IN
        (a.pc = "unlock" /\ a.at = "commit")
        => (a.err /\ a.kind = InternalServerError)

----------------------------------------------------------------------------
(* Properties of Retrieve and MaxSeq beside a concurrent Append *)

Min(x, y) == IF x <= y THEN x ELSE y

\* C8: a Retrieve or MaxSeq that runs beside an Append of a batch observes the
\* state before the Append or the state after its commit: the committed state
\* holds no part of a batch that is being staged, the max sequence the reader
\* gets is the one of the committed state at its call, the entries it reads
\* are committed entries at or below that max sequence, and no entry it looks
\* for is missing.
C8_ReaderSeesWholeBatches ==
    /\ \A w \in Writers :
          ap[w].pc \in {"stage", "callback", "commit"}
          => (db = ap[w].pre /\ MaxSeqIn(db) = Len(log))
    /\ rd.call = "Retrieve" =>
          /\ rd.ms = MaxSeqIn(rd.pre)
          /\ Len(rd.ret) > 0 => rd.startSeq + Len(rd.ret) - 1 <= rd.ms
          /\ \A i \in 1..Len(rd.ret) :
                /\ rd.startSeq + i - 1 <= Len(log)
                /\ rd.ret[i] = log[rd.startSeq + i - 1]
          /\ (rd.pc = "done" /\ rd.startSeq >= 1) => ~rd.err
    /\ rd.call = "MaxSeq" => rd.val = MaxSeqIn(rd.pre)

\* a Retrieve that was called while one operation of a batch of two was staged
C8_Witness ==
    /\ rd.call = "Retrieve" /\ rd.pc = "done" /\ rd.startSeq = 1
    /\ rd.countLimit = 2
    /\ rd.staged = 1
    /\ rd.ret = <<>>
    /\ Len(log) = 2

\* C9: Retrieve(s, n) with s >= 1 returns without error the entries of the
\* sequence numbers s .. min(MaxSeq, s+n-1) in ascending order: min(n,
\* MaxSeq-s+1) entries when s <= MaxSeq and none when s > MaxSeq.
C9_RetrieveReturnsRange ==
    (rd.pc = "done" /\ rd.call = "Retrieve" /\ rd.startSeq >= 1)
    => LET s == rd.startSeq
           n == rd.countLimit
           ms == MaxSeqIn(rd.pre)
           count == IF s <= ms THEN Min(n, ms - s + 1) ELSE 0
       IN  /\ ~rd.err /\ rd.kind = NoneClusterError
           /\ Len(rd.ret) = count
           /\ s + count - 1 = (IF s <= ms THEN Min(ms, s + n - 1) ELSE s - 1)
           /\ \A i \in 1..count : rd.ret[i] = log[s + i - 1]

C9_Witness ==
    /\ rd.pc = "done" /\ rd.call = "Retrieve"
    /\ rd.startSeq = 2 /\ rd.countLimit = 2
    /\ MaxSeqIn(rd.pre) = 2
    /\ Len(rd.ret) = 1

\* every committed entry is the operation a successful Append placed there
StoreMatchesLog ==
    /\ MaxSeqIn(db) = Len(log)
    /\ \A k \in 1..Len(log) :
          /\ SeqKey(k) \in DOMAIN db
          /\ Decodes(db[SeqKey(k)], log[k])

\* Retrieve(1, n) with n at least MaxSeq returns all appended operations
ReadsBackLog ==
    (rd.pc = "done" /\ rd.call = "Retrieve" /\ rd.startSeq = 1
        /\ rd.countLimit >= MaxSeqIn(rd.pre))
    => rd.ret = SubSeq(log, 1, MaxSeqIn(rd.pre))

\* C10: the entry of sequence number k is the operation that the successful
\* Append put at k (the i-th operation of the batch that started at k-i+1),
\* Retrieve(1, MaxSeq) returns the successfully appended batches concatenated
\* in the order of the Appends, and no Append, successful or failed, changes
\* an entry that was committed before it.
C10_RoundTripAndOrder ==
    /\ StoreMatchesLog
    /\ ReadsBackLog
    /\ \A w \in Writers :
          LET a == ap[w] IN
          /\ a.pc \in {"stage", "callback", "commit", "unlock"}
               => \A k \in 1..MaxSeqIn(a.pre) :
                     /\ SeqKey(k) \in DOMAIN db
                     /\ db[SeqKey(k)] = a.pre[SeqKey(k)]
          /\ (a.pc = "unlock" /\ ~a.err)
               => /\ Len(log) = MaxSeqIn(a.pre) + Len(a.operations)
                  /\ \A i \in 1..Len(a.operations) :
                        /\ log[a.startSeq + i - 1] = a.operations[i]
                        /\ Decodes(db[SeqKey(a.startSeq + i - 1)], a.operations[i])

C10_Witness ==
    /\ rd.pc = "done" /\ rd.call = "Retrieve"
    /\ rd.startSeq = 1 /\ rd.countLimit = 2
    /\ rd.ret = << OpB, OpA >>
    /\ log = << OpB, OpA >>

----------------------------------------------------------------------------
(* One caller of Append that keeps each result and calls again after a refusal *)

NextRetry ==
    \/ AppendBody("w1", Operations, {"none"}, ReadOutcomes)
    \/ AppendReturn("w1")
    \/ RetryMaxSeq("w1")
    \/ \E operations \in Batches({OpA, OpB}) : AppendRetry("w1", operations)

SpecRetry == InitRead /\ [][NextRetry]_vars

\* the store holds what before held and the batch at startSeq, nothing else
StoresExactly(store, before, startSeq, operations) ==
    /\ DOMAIN store = DOMAIN before \cup {maxSeqKey}
                          \cup { SeqKey(startSeq + i - 1) : i \in 1..Len(operations) }
    /\ \A k \in DOMAIN before \ {maxSeqKey} : store[k] = before[k]
    /\ \A i \in 1..Len(operations) :
          Decodes(store[SeqKey(startSeq + i - 1)], operations[i])
    /\ MaxSeqIn(store) = MaxSeqIn(before) + Len(operations)

\* C11: an Append refused with InvalidSeq, SeqConflict or InvalidContent,
\* at whatever index of the batch, leaves the store as it was, while the lock
\* is held and after Append has returned: no entry of the batch and no
\* changed max sequence. The next Append of the caller, a batch of operations
\* with content at MaxSeq() + 1, succeeds when the callbacks accept and the
\* commit works, and stores exactly its own operations.
C11_RefusalLeavesLogUsable ==
    \A w \in Writers :
       LET a == ap[w]
       IN  /\ (Finished(a) /\ a.err /\ a.kind \in RefusalKinds) => db = a.pre
           /\ (Finished(a) /\ a.retry # "" /\ a.at \notin {"callback", "commit"})
                 => /\ ~a.err
                    /\ StoresExactly(db, a.pre, a.startSeq, a.operations)

C11_Witness ==
    /\ ap["w1"].pc = "returned"
    /\ ap["w1"].retry = OperationInvalidContentError
    /\ ~ap["w1"].err
    /\ ap["w1"].operations = << OpA, OpB >>
    /\ StoresExactly(db, ap["w1"].pre, 1, << OpA, OpB >>)

----------------------------------------------------------------------------
(* One caller of Append, a reader of the whole log, and Close and NewOPLog
   at the same path *)

NextRestart ==
    \/ AppendSteps("w1", {OpA}, StoreFaults, AcceptOutcomes)
    \/ AppendOrphanEnds("w1")
    \/ \E countLimit \in {MaxLog} : RetrieveCall(1, countLimit)
    \/ RetrieveStep
    \/ MaxSeq
    \/ ReaderReturn
    \/ ReaderOrphanEnds
    \/ Close
    \/ \E commitFailed \in BOOLEAN : NewOPLogAgain(commitFailed)

SpecRestart == InitRead /\ [][NextRestart]_vars

\* the stored entries are the successfully appended operations, nothing else
StoreIsLog ==
    /\ StoreMatchesLog
    /\ DOMAIN db \ {maxSeqKey} = { SeqKey(k) : k \in 1..Len(log) }

\* C12: the store that was closed and opened again at the same path holds
\* exactly the entries of the Appends that succeeded, whenever Close and
\* NewOPLog were called; its max sequence is their number and was not written
\* back to 0, and MaxSeq() and Retrieve(1, n) called on the new opLog before
\* any further Append return that number and those operations in order.
C12_ReopenKeepsCommitted ==
    handle.reopened =>
       /\ StoreIsLog
       /\ (~handle.closed /\ Len(log) = handle.kept /\ rd.pc = "done"
              /\ rd.call = "MaxSeq")
             => rd.val = Len(log)
       /\ (~handle.closed /\ Len(log) = handle.kept /\ rd.pc = "done"
              /\ rd.call = "Retrieve")
             => (~rd.err /\ rd.ret = log)

C12_Witness ==
    /\ handle.reopened /\ ~handle.closed
    /\ handle.kept = 2 /\ Len(log) = 2
    /\ rd.pc = "done" /\ rd.call = "Retrieve"
    /\ rd.ret = << OpA, OpA >>
    /\ MaxSeqIn(db) = 2

----------------------------------------------------------------------------
(* Two callers of Append at the same time; the first appends OpA, the second
   OpB, and the registered callback accepts *)

NextConcurrent ==
    \/ AppendBody("w1", {OpA}, {"none"}, AcceptOutcomes)
    \/ AppendReturn("w1")
    \/ AppendBody("w2", {OpB}, {"none"}, AcceptOutcomes)
    \/ AppendReturn("w2")

SpecConcurrent == InitRead /\ [][NextConcurrent]_vars

\* both calls were made when MaxSeq was startSeq - 1, with the same startSeq
\* and batches of operations with content, and both have their result,
\* neither from a failed commit
RacedForSeq(a, b) ==
    /\ Finished(a) /\ Finished(b)
    /\ a.startSeq = b.startSeq
    /\ a.seen = b.seen /\ a.startSeq = a.seen + 1
    /\ Len(a.operations) > 0 /\ Len(b.operations) > 0
    /\ a.at # "commit" /\ b.at # "commit"

\* a succeeded and b was refused with SeqConflict; the store is what a found
\* with the batch of a added
WonAgainst(a, b) ==
    /\ ~a.err
    /\ b.err /\ b.kind = OperationSeqConflictError
    /\ StoresExactly(db, a.pre, a.startSeq, a.operations)
    /\ b.pre = db

\* C13: of two Appends in progress at the same time with the same startSeq =
\* MaxSeq + 1 and non-empty batches with content, the callbacks accepting
\* and the commits working, exactly one succeeds and the other fails with
\* SeqConflict, in every interleaving; the store then holds the batch of the
\* one that succeeded and nothing of the other.
C13_OneWinnerPerSeq ==
    LET a == ap["w1"]
        b == ap["w2"]
    IN  RacedForSeq(a, b) =>
           \/ WonAgainst(a, b) /\ ~WonAgainst(b, a)
           \/ WonAgainst(b, a) /\ ~WonAgainst(a, b)

C13_Witness ==
    /\ RacedForSeq(ap["w1"], ap["w2"])
    /\ ap["w1"].pc = "returned" /\ ap["w2"].pc = "returned"
    /\ ap["w1"].startSeq = 1
    /\ ap["w1"].operations = << OpA, OpA >>
    /\ ap["w2"].operations = << OpB >>
    /\ WonAgainst(ap["w2"], ap["w1"])

\* between op.Lock() and the deferred op.Unlock()
InAppendSection(a) == a.pc \in {"stage", "callback", "commit", "unlock"}

\* C14: the callback invocations of different Appends never interleave:
\* while one Append is between its lock and its unlock, where it invokes
\* its callbacks, it holds the mutex and every other Append is before its
\* lock or has returned, with no invocation of its own in progress.
C14_AppendsSerialized ==
    \A w \in Writers :
       InAppendSection(ap[w]) =>
          /\ mu = w
          /\ \A v \in Writers \ {w} :
                /\ ~InAppendSection(ap[v])
                /\ ap[v].invoked = <<>>

C14_Witness ==
    /\ ap["w1"].pc = "callback" /\ ap["w1"].idx = 1
    /\ Len(ap["w1"].invoked) = 1
    /\ ap["w2"].pc = "lock"
    /\ Len(ap["w2"].operations) = 2

----------------------------------------------------------------------------
(* Claims about one Append and the callback registry, under Spec *)

\* C15: one Append uses one list of callbacks for all operations of its
\* batch: from its first invocation to its unlock the list it took for the
\* current operation is the registered list, and every invocation it has made
\* follows that list, so a registration or removal took effect before its
\* first operation or takes effect after its last.
C15_OneCallbackListPerAppend ==
    \A w \in Writers :
       LET a == ap[w]
       IN  (InAppendSection(a) /\ (a.pc = "callback" \/ a.invoked # <<>>))
             => /\ a.cbs = callbacks
                /\ InvocationsInOrder(a, Len(a.invoked))

C15_Witness ==
    /\ ap["w1"].pc = "callback" /\ ap["w1"].idx = 1
    /\ Len(callbacks) = 2
    /\ ap["w1"].cbs = callbacks
    /\ Len(ap["w1"].invoked) = 3

\* the transaction of a has staged the entries of the first k operations of
\* the batch and the max sequence increased k times, nothing else
StagedUpTo(a, k) ==
    /\ DOMAIN a.writes = { SeqKey(a.startSeq + i) : i \in 0..(k - 1) }
                            \cup (IF k > 0 THEN {maxSeqKey} ELSE {})
    /\ \A i \in 0..(k - 1) :
          Decodes(a.writes[SeqKey(a.startSeq + i)], a.operations[i + 1])
    /\ locklessReadMaxSeq(TxnView(a.snap, a.writes)) = a.ms + k

\* C17: in an Append that succeeds, for the indexes of the batch in ascending
\* order every registered callback is invoked exactly once, in registry
\* order, with seq startSeq + i and the operation at i. The callbacks of i
\* run when the entry of i and the increased max sequence are staged and the
\* operation at i + 1 is not, and all of them before the commit.
C17_CallbackOrder ==
    \A w \in Writers :
       LET a == ap[w]
           n == Len(a.cbs)
       IN  /\ a.pc = "stage"
             => /\ StagedUpTo(a, a.idx)
                /\ InvocationsInOrder(a, a.idx * n)
                /\ db = a.pre
           /\ a.pc = "callback"
             => /\ StagedUpTo(a, a.idx + 1)
                /\ InvocationsInOrder(a, a.idx * n + a.cbIdx - 1)
                /\ db = a.pre
           /\ a.pc = "commit"
             => /\ StagedUpTo(a, Len(a.operations))
                /\ InvocationsInOrder(a, Len(a.operations) * n)
                /\ db = a.pre
           /\ (a.pc = "unlock" /\ ~a.err /\ Len(a.operations) > 0)
             => /\ a.cbs = callbacks
                /\ InvocationsInOrder(a, Len(a.operations) * Len(callbacks))
                /\ \A j \in 1..Len(a.invoked) : ~a.invoked[j].out.err

C17_Witness ==
    /\ ap["w1"].pc = "unlock" /\ ~ap["w1"].err
    /\ ap["w1"].operations = << OpA, OpB >>
    /\ Len(callbacks) = 2
    /\ Len(ap["w1"].invoked) = 4
    /\ MaxSeqIn(db) = 2

\* C18: an operation without content at index i fails the Append with
\* InvalidContent: max sequence and entries are as before, no operation of
\* the batch has an entry, the callbacks of the indexes below i have been
\* invoked and none for i or above. A batch that passed the startSeq checks
\* and has such an operation never succeeds, and fails at the first such
\* index unless json.Marshal, the store or a callback failed before.
C18_NoContentAborts ==
    \A w \in Writers :
       LET a == ap[w]
       IN  /\ (a.pc = "unlock" /\ a.at = "content")
             => /\ a.err /\ a.kind = OperationInvalidContentError
                /\ \A f \in 1..Len(ContentFields) : a.operations[a.idx + 1][f] = Nil
                /\ \A i \in 1..a.idx : a.operations[i] # OpEmpty
                /\ db = a.pre
                /\ \A i \in 1..Len(a.operations) :
                      SeqKey(a.startSeq + i - 1) \notin DOMAIN db
                /\ InvocationsInOrder(a, a.idx * Len(callbacks))
                /\ \A j \in 1..Len(a.invoked) : a.invoked[j].seq < a.startSeq + a.idx
           /\ (a.pc = "unlock" /\ a.at # "startSeq"
                  /\ \E i \in 1..Len(a.operations) : a.operations[i] = OpEmpty)
             => /\ a.err
                /\ a.at \in {"content", "marshal", "set", "increase", "callback"}

C18_Witness ==
    /\ ap["w1"].pc = "unlock" /\ ap["w1"].at = "content"
    /\ ap["w1"].operations = << OpA, OpEmpty >>
    /\ ap["w1"].idx = 1
    /\ Len(callbacks) = 2
    /\ Len(ap["w1"].invoked) = 2

----------------------------------------------------------------------------
(* Claims about MinSeq and the stored keys *)

\* C16: MinSeq() returns 1 when the max sequence is above 0 and 0 when it is
\* 0; it is never above MaxSeq() and never above 1.
C16_MinSeqIsOneOrZero ==
    (rd.pc = "done" /\ rd.call = "MinSeq")
    => /\ rd.val = (IF MaxSeqIn(rd.pre) > 0 THEN 1 ELSE 0)
       /\ rd.val <= MaxSeqIn(rd.pre)
       /\ rd.val <= 1

C16_Witness ==
    /\ rd.pc = "done" /\ rd.call = "MinSeq"
    /\ MaxSeqIn(rd.pre) = 2
    /\ rd.val = 1

\* the keys of the stored entries are the sequence numbers 1 .. max sequence
GapFree(store) ==
    DOMAIN store \ {maxSeqKey} = { SeqKey(k) : k \in 1..MaxSeqIn(store) }

\* C19: in every committed state, from the first open through Appends,
\* Retrieves, Close and a new open, the keys of the stored entries are
\* exactly 1 .. MaxSeq, and no step makes MaxSeq smaller.
C19_GapFreeAndMonotone ==
    GapFree(db) /\ [][GapFree(db') /\ MaxSeqIn(db') >= MaxSeqIn(db)]_vars

C19_Witness ==
    /\ handle.reopened /\ handle.kept = 1
    /\ GapFree(db)
    /\ MaxSeqIn(db) = 2
    /\ ap["w1"].pc = "unlock" /\ ~ap["w1"].err /\ ap["w1"].startSeq = 2

----------------------------------------------------------------------------
(* scheduler.Register and the object book *)

MaxDepends == 2     \* kinds in DependObjectKinds of one record

Kinds == {"", "A", "B"}

DependLists == UNION { [1..n -> Kinds \ {""}] : n \in 0..MaxDepends }

\* an ObjectRecord: typed says that DefaultSpecFunc and NewFunc pass the
\* checks of their types
ObjectRecords ==
    [ Kind : Kinds, DependObjectKinds : DependLists, typed : BOOLEAN ]

\* the panic of the loop over or.DependObjectKinds from index i on, or
\* "registered" when the loop ends; the cycle test compares the depended
\* kind with the kinds that its own record depends on
RECURSIVE CheckDepends(_, _, _)
CheckDepends(or, book, i) ==
    LET dependKind == or.DependObjectKinds[i]
    IN  IF i > Len(or.DependObjectKinds) THEN "registered"
        ELSE IF \E j \in 1..(i - 1) : or.DependObjectKinds[j] = dependKind
             THEN "repeated depend object kind"
        ELSE IF /\ dependKind \in DOMAIN book
                /\ \E k \in 1..Len(book[dependKind]) :
                      dependKind = book[dependKind][k]
             THEN "depend cycle"
        ELSE CheckDepends(or, book, i + 1)

\* how Register(or) ends: the message of its panic, or "registered"
RegisterResult(or, book) ==
    IF or.Kind = "" THEN "empty kind"
    ELSE IF or.Kind \in DOMAIN book THEN "conflict kind"
    ELSE IF ~or.typed THEN "func type"
    ELSE CheckDepends(or, book, 1)

\* objectBook[or.Kind] = or
Book(book, or) ==
    [ k \in (DOMAIN book) \cup {or.Kind} |->
        IF k = or.Kind THEN or.DependObjectKinds ELSE book[k] ]

Register(or) ==
    /\ LET result == RegisterResult(or, objectBook)
       IN  /\ registered' = [ kind |-> or.Kind, depends |-> or.DependObjectKinds,
                              typed |-> or.typed, result |-> result ]
           /\ objectBook' = IF result = "registered" THEN Book(objectBook, or)
                            ELSE objectBook
    /\ UNCHANGED <<db, mu, callbacks, ap, rd, log, handle>>

NextRegister == \E or \in ObjectRecords : Register(or)

SpecRegister == Init /\ [][NextRegister]_vars

\* kind a lists kind b in its DependObjectKinds
DependsOn(book, a, b) == \E k \in 1..Len(book[a]) : book[a][k] = b

\* the book as it was when the last Register was called
BookBefore ==
    IF registered.result = "registered"
    THEN [ k \in (DOMAIN objectBook) \ {registered.kind} |-> objectBook[k] ]
    ELSE objectBook

\* the record of the last Register passes the checks that precede the test
\* for a cycle
PassesOtherChecks ==
    /\ registered.result # "none"
    /\ registered.kind # ""
    /\ registered.kind \notin DOMAIN BookBefore
    /\ registered.typed
    /\ \A i, j \in 1..Len(registered.depends) :
          registered.depends[i] = registered.depends[j] => i = j

\* a declared dependency of the record is registered and depends back on
\* the record's kind
ClosesCycle ==
    \E i \in 1..Len(registered.depends) :
       /\ registered.depends[i] \in DOMAIN BookBefore
       /\ DependsOn(BookBefore, registered.depends[i], registered.kind)

\* C20: the object book never has two kinds that list each other in
\* DependObjectKinds; Register of a record with a declared dependency that is
\* registered and depends back on the record's kind panics with 'depend
\* cycle' and leaves the book as it was; a record without such a cycle that
\* passes the other checks is registered.
C20_NoDependCycle ==
    /\ \A a, b \in DOMAIN objectBook :
          a # b => ~(DependsOn(objectBook, a, b) /\ DependsOn(objectBook, b, a))
    /\ (PassesOtherChecks /\ ClosesCycle)
          => (registered.result = "depend cycle" /\ objectBook = BookBefore)
    /\ (PassesOtherChecks /\ ~ClosesCycle)
          => /\ registered.result = "registered"
             /\ registered.kind \in DOMAIN objectBook
             /\ objectBook[registered.kind] = registered.depends

====
